---- MODULE Spec2Model ----
(***************************************************************************)
(* State-machine model of the snake game of src/snake_game/snake.rs:       *)
(* struct Game with its methods new, generate_food, update and             *)
(* change_direction, and the driver loop of main.                          *)
(*                                                                         *)
(*   Spec          the engine under any sequence of its operations         *)
(*   DriverSpec    the loop of main: drain input, timed frame, check       *)
(*   LoopFairSpec  update with the sampling loop of generate_food unfolded *)
(*                                                                         *)
(* The board dimensions are the compile-time constants WIDTH = 20 and      *)
(* HEIGHT = 10 in the source.  The model keeps every formula of the source *)
(* in terms of WIDTH and HEIGHT and explores a scaled-down board, so that  *)
(* every snake the engine can build, up to the ones that fill the board,   *)
(* is explored exhaustively.                                               *)
(***************************************************************************)
EXTENDS Integers, Sequences, FiniteSets, TLC

\* const WIDTH: u16 (snake.rs:15) and const HEIGHT: u16 (snake.rs:16), scaled down.
WIDTH == 4
HEIGHT == 4

\* Position.x and Position.y are u16.
U16 == 2 ^ 16

\* enum Direction
Direction == {"Up", "Down", "Left", "Right"}

\* struct Position { x, y }
Position(x, y) == [x |-> x, y |-> y]

VARIABLES
    snake,      \* Game.snake: VecDeque<Position>, front = index 1
    direction,  \* Game.direction
    food,       \* Game.food
    game_over,  \* Game.game_over
    last,       \* history: the last operation, its argument and the Game before it
    pc,         \* where the single thread of main is: "poll", "frame", "check", "done",
                \* or "generate_food" inside the sampling loop
    events,     \* the key events the terminal holds for event::poll / event::read
    candidate,  \* the local `pos` of generate_food while it samples
    ticks,      \* history: the number of frames that have come due
    inbox,      \* history: the keys received and not yet read at the last tick, then
                \* the keys received since, in receipt order
    dir0        \* history: the direction the last tick moved in

vars == <<snake, direction, food, game_over, last, pc, events, candidate, ticks, inbox, dir0>>

\* what the engine operations never touch
outside == <<pc, events, candidate, ticks, inbox, dir0>>

\* The four fields of struct Game as one value.
Game == [snake |-> snake, direction |-> direction, food |-> food, game_over |-> game_over]

----------------------------------------------------------------------------
(* VecDeque and u16 primitives used by the engine *)

\* VecDeque::contains
contains(s, p) == \E i \in 1..Len(s) : s[i] = p

\* a push onto the back of the deque instead of the front
push_at_back(s, p) == s \o <<p>>

\* VecDeque::push_front
push_front(s, p) == <<p>> \o s

\* a pop that removes the front (the new head) instead of the back
pop_back_wrong_end(s) == SubSeq(s, 2, Len(s))

\* VecDeque::pop_back
pop_back(s) == SubSeq(s, 1, Len(s) - 1)

\* a subtraction that wraps below zero (u16::wrapping_sub)
wrapping_sub(v, n) == (v - n + U16) % U16

\* u16::saturating_sub
saturating_sub(v, n) == IF v >= n THEN v - n ELSE 0

\* u16 `+` (wraps at 2^16 in a release build)
add_u16(v, n) == (v + n) % U16

----------------------------------------------------------------------------
(* Game::generate_food *)

\* generate_food without the `!snake.contains(&pos)` test
generate_food_no_exclusion(s) ==
    {Position(x, y) : x \in 1..(WIDTH - 2), y \in 1..(HEIGHT - 2)}

\* The positions the sampling loop can return: x from gen_range(1..WIDTH-1),
\* y from gen_range(1..HEIGHT-1), accepted when not on the snake.  When the
\* set is empty the loop never returns.
generate_food(s) ==
    {pos \in {Position(x, y) : x \in 1..(WIDTH - 2), y \in 1..(HEIGHT - 2)} :
        ~contains(s, pos)}

----------------------------------------------------------------------------
(* Game::update *)

\* the `match self.direction` of update
new_head(head, dir) ==
    CASE dir = "Up"    -> Position(head.x, saturating_sub(head.y, 1))
      [] dir = "Down"  -> Position(head.x, add_u16(head.y, 1))
      [] dir = "Left"  -> Position(saturating_sub(head.x, 1), head.y)
      [] dir = "Right" -> Position(add_u16(head.x, 1), head.y)

\* a collision test without the self-collision disjunct
collision_walls_only(s, nh) ==
    nh.x = 0 \/ nh.y = 0 \/ nh.x >= WIDTH \/ nh.y >= HEIGHT

\* a collision test that lets the head enter the cell the tail is leaving
collision_tail_free(s, nh) ==
    nh.x = 0 \/ nh.y = 0 \/ nh.x >= WIDTH \/ nh.y >= HEIGHT
        \/ contains(pop_back(s), nh)

\* the `if` condition of update (snake.rs:76)
collision(s, nh) ==
    nh.x = 0 \/ nh.y = 0 \/ nh.x >= WIDTH \/ nh.y >= HEIGHT \/ contains(s, nh)

\* a collision branch that has already pushed the new head
on_collision_after_push ==
    /\ game_over' = TRUE
    /\ snake' = push_front(snake, new_head(snake[1], direction))
    /\ UNCHANGED <<direction, food>>

\* update, collision branch: self.game_over = true; return
on_collision ==
    /\ game_over' = TRUE
    /\ UNCHANGED <<snake, direction, food>>

\* update, new_head == self.food: the tail is kept and the food regenerated
\* over the snake that already holds the new head
on_food(nh) ==
    /\ snake' = push_front(snake, nh)
    /\ food' \in generate_food(push_front(snake, nh))
    /\ UNCHANGED <<direction, game_over>>

\* a plain move that also raises the terminal flag
on_move_sets_flag(nh) ==
    /\ snake' = pop_back(push_front(snake, nh))
    /\ game_over' = TRUE
    /\ UNCHANGED <<direction, food>>

\* update, otherwise: push_front then pop_back
on_move(nh) ==
    /\ snake' = pop_back(push_front(snake, nh))
    /\ UNCHANGED <<direction, food, game_over>>

update ==
    LET head == snake[1]
        nh == new_head(head, direction)
    IN  /\ last' = [op |-> "update", arg |-> "none", pre |-> Game]
        /\ \/ collision(snake, nh) /\ on_collision
           \/ ~collision(snake, nh) /\ nh = food /\ on_food(nh)
           \/ ~collision(snake, nh) /\ nh # food /\ on_move(nh)

----------------------------------------------------------------------------
(* Game::change_direction *)

\* a guard that forgets one of the four reversal arms
next_direction_missing_arm(cur, new_direction) ==
    CASE cur = "Up" /\ new_direction = "Down"    -> cur
      [] cur = "Down" /\ new_direction = "Up"    -> cur
      [] cur = "Left" /\ new_direction = "Right" -> cur
      [] OTHER                                   -> new_direction

\* the `match (self.direction, new_direction)` of change_direction
next_direction(cur, new_direction) ==
    CASE cur = "Up" /\ new_direction = "Down"    -> cur
      [] cur = "Down" /\ new_direction = "Up"    -> cur
      [] cur = "Left" /\ new_direction = "Right" -> cur
      [] cur = "Right" /\ new_direction = "Left" -> cur
      [] OTHER                                   -> new_direction

\* a direction change that also steps the snake at once
change_direction_and_step(new_direction) ==
    /\ direction' = next_direction(direction, new_direction)
    /\ last' = [op |-> "change_direction", arg |-> new_direction, pre |-> Game]
    /\ snake' = pop_back(push_front(snake, new_head(snake[1], new_direction)))
    /\ UNCHANGED <<food, game_over>>

change_direction(new_direction) ==
    /\ direction' = next_direction(direction, new_direction)
    /\ last' = [op |-> "change_direction", arg |-> new_direction, pre |-> Game]
    /\ UNCHANGED <<snake, food, game_over>>

----------------------------------------------------------------------------
(* main: KeyCode::Char('q') => game.game_over = true *)

quit ==
    /\ game_over' = TRUE
    /\ last' = [op |-> "quit", arg |-> "none", pre |-> Game]
    /\ UNCHANGED <<snake, direction, food>>

----------------------------------------------------------------------------
(* Game::new and the engine driven by any sequence of its operations *)

\* no candidate: generate_food is not running
no_candidate == Position(0, 0)

\* Game::new puts the single segment at (5,5) on the 20 x 10 board, that is
\* at (WIDTH / 4, HEIGHT / 2); the model keeps that proportion.
start == Position(WIDTH \div 4, HEIGHT \div 2)

Init ==
    /\ snake = <<start>>
    /\ food \in generate_food(<<start>>)
    /\ direction = "Right"
    /\ game_over = FALSE
    /\ last = [op |-> "new", arg |-> "none",
               pre |-> [snake |-> <<>>, direction |-> "Right",
                        food |-> Position(0, 0), game_over |-> FALSE]]
    /\ pc = "poll"
    /\ events = <<>>
    /\ candidate = no_candidate
    /\ ticks = 0
    /\ inbox = <<>>
    /\ dir0 = "Right"

Next ==
    \/ (\E d \in Direction : change_direction(d)) /\ UNCHANGED outside
    \/ quit /\ UNCHANGED outside
    \/ update /\ UNCHANGED outside

Spec == Init /\ [][Next]_vars

----------------------------------------------------------------------------
(* main: the driver loop (snake.rs:133-163) and the keys that reach it *)

\* the most key events that arrive between two ticks
MaxPending == 2

\* the most frames that come due
MaxTicks == 3

\* the key codes main distinguishes: the four arrows, 'q', anything else
KeyCode == Direction \cup {"q", "other"}

\* the terminal queues a key press; event::poll will report it
key_press(k) ==
    /\ pc # "done"
    /\ Len(inbox) < MaxPending
    /\ events' = Append(events, k)
    /\ inbox' = Append(inbox, k)
    /\ UNCHANGED <<snake, direction, food, game_over, last, pc, candidate, ticks, dir0>>

\* a 'q' arm without its `break`
after_key_no_break(k) == "poll"

\* where the `while event::poll` loop goes after a key: `break` on 'q'
after_key(k) == IF k = "q" THEN "frame" ELSE "poll"

\* event::read hands out the newest event instead of the oldest
read_newest(q) == <<q[Len(q)], SubSeq(q, 1, Len(q) - 1)>>

\* event::read: the oldest pending event and the events left behind it
read(q) == <<Head(q), Tail(q)>>

\* one pass of the `while event::poll(0)` body: read a key and dispatch it
poll_read ==
    /\ pc = "poll"
    /\ events # <<>>
    /\ LET code == read(events)[1]
       IN  /\ events' = read(events)[2]
           /\ pc' = after_key(code)
           /\ \/ code \in Direction /\ change_direction(code)
              \/ code = "q" /\ quit
              \/ code = "other" /\ UNCHANGED <<snake, direction, food, game_over, last>>
    /\ UNCHANGED <<candidate, ticks, inbox, dir0>>

\* event::poll(0) returns false: the while loop ends
poll_empty ==
    /\ pc = "poll"
    /\ events = <<>>
    /\ pc' = "frame"
    /\ UNCHANGED <<snake, direction, food, game_over, last, events, candidate, ticks, inbox, dir0>>

\* a frame that calls update whatever the flag says
timed_update_unguarded ==
    /\ update
    /\ dir0' = direction
    /\ inbox' = events

\* if !game.game_over { game.update(); }  (draw reads the state only)
timed_update ==
    IF ~game_over
    THEN /\ update
         /\ dir0' = direction
         /\ inbox' = events
    ELSE UNCHANGED <<snake, direction, food, game_over, last, dir0, inbox>>

\* last_frame.elapsed() >= 120 ms
frame_due ==
    /\ pc = "frame"
    /\ ticks < MaxTicks
    /\ ticks' = ticks + 1
    /\ timed_update
    /\ pc' = "check"
    /\ UNCHANGED <<events, candidate>>

\* last_frame.elapsed() < 120 ms
frame_not_due ==
    /\ pc = "frame"
    /\ pc' = "check"
    /\ UNCHANGED <<snake, direction, food, game_over, last, events, candidate, ticks, inbox, dir0>>

\* if game.game_over { break; } else sleep(10 ms) and loop
terminal_check ==
    /\ pc = "check"
    /\ pc' = IF game_over THEN "done" ELSE "poll"
    /\ UNCHANGED <<snake, direction, food, game_over, last, events, candidate, ticks, inbox, dir0>>

DriverNext ==
    \/ \E k \in KeyCode : key_press(k)
    \/ poll_read
    \/ poll_empty
    \/ frame_due
    \/ frame_not_due
    \/ terminal_check

DriverSpec == Init /\ [][DriverNext]_vars

----------------------------------------------------------------------------
(* Game::update with the sampling loop of generate_food step by step *)

\* update up to the call of generate_food: the collision branch and the plain
\* move as in update; on food the new head is pushed and the loop is entered
update_to_sampling ==
    LET nh == new_head(snake[1], direction)
    IN  /\ pc = "poll"
        /\ ticks < MaxTicks
        /\ ticks' = ticks + 1
        /\ last' = [op |-> "update", arg |-> "none", pre |-> Game]
        /\ \/ collision(snake, nh) /\ on_collision /\ UNCHANGED pc
           \/ /\ ~collision(snake, nh) /\ nh = food
              /\ snake' = push_front(snake, nh)
              /\ pc' = "generate_food"
              /\ UNCHANGED <<direction, food, game_over>>
           \/ ~collision(snake, nh) /\ nh # food /\ on_move(nh) /\ UNCHANGED pc
        /\ UNCHANGED <<events, candidate, inbox, dir0>>

\* a loop body that returns whatever it sampled
sample_returns_any(x, y) ==
    /\ pc = "generate_food"
    /\ x \in 1..(WIDTH - 2)
    /\ y \in 1..(HEIGHT - 2)
    /\ food' = Position(x, y)
    /\ candidate' = no_candidate
    /\ pc' = "poll"
    /\ UNCHANGED <<snake, direction, game_over, last, events, ticks, inbox, dir0>>

\* one pass of the loop of generate_food: gen_range(1..WIDTH-1) gives x,
\* gen_range(1..HEIGHT-1) gives y; return pos if the snake does not contain
\* it, else go round again
sample(x, y) ==
    /\ pc = "generate_food"
    /\ x \in 1..(WIDTH - 2)
    /\ y \in 1..(HEIGHT - 2)
    /\ IF ~contains(snake, Position(x, y))
       THEN /\ food' = Position(x, y)
            /\ candidate' = no_candidate
            /\ pc' = "poll"
       ELSE /\ candidate' = Position(x, y)
            /\ UNCHANGED <<food, pc>>
    /\ UNCHANGED <<snake, direction, game_over, last, events, ticks, inbox, dir0>>

LoopNext ==
    \/ pc = "poll" /\ (\E d \in Direction : change_direction(d)) /\ UNCHANGED outside
    \/ pc = "poll" /\ quit /\ UNCHANGED outside
    \/ update_to_sampling
    \/ \E x \in 0..(WIDTH - 1), y \in 0..(HEIGHT - 1) : sample(x, y)

LoopSpec == Init /\ [][LoopNext]_vars

\* fair sampling: a cell the generator can draw is drawn sooner or later
LoopFairSpec ==
    LoopSpec /\ \A x \in 0..(WIDTH - 1), y \in 0..(HEIGHT - 1) : WF_vars(sample(x, y))

----------------------------------------------------------------------------
(* Vocabulary of the properties *)

\* the cells of the interior region [1,W-1) x [1,H-1)
InteriorCells == {Position(x, y) : x \in 1..(WIDTH - 2), y \in 1..(HEIGHT - 2)}

\* strictly inside the border
Interior(p) == p.x >= 1 /\ p.x < WIDTH - 1 /\ p.y >= 1 /\ p.y < HEIGHT - 1

\* on or outside the border: x=0, y=0, x>=W-1, y>=H-1
OnOrOutsideBorder(p) == p.x = 0 \/ p.y = 0 \/ p.x >= WIDTH - 1 \/ p.y >= HEIGHT - 1

\* the pairs Up/Down and Left/Right, in both orders
Opposite(a, b) ==
    <<a, b>> \in {<<"Up", "Down">>, <<"Down", "Up">>, <<"Left", "Right">>, <<"Right", "Left">>}

\* the last operation was a tick
Ticked == last.op = "update"

\* the head the last tick computed, from the Game it started in
TickHead == new_head(last.pre.snake[1], last.pre.direction)

\* the last tick found its new head on one of the old segments
TickHitSelf == \E i \in 1..Len(last.pre.snake) : last.pre.snake[i] = TickHead

\* the last tick found its new head outside the cells the code accepts
TickHitWall ==
    TickHead.x = 0 \/ TickHead.y = 0 \/ TickHead.x >= WIDTH \/ TickHead.y >= HEIGHT

----------------------------------------------------------------------------
(* C1, C2: the border *)

\* C1: in every reachable state every snake segment lies strictly inside the
\* interior [1,W-1) x [1,H-1).
C1_SnakeInsideInterior == \A i \in 1..Len(snake) : Interior(snake[i])

\* C2: a tick whose new head lies on or outside the border (x=0, y=0,
\* x>=W-1 or y>=H-1) sets the terminal flag, for all four walls.
C2_BorderHeadSetsTerminal == (Ticked /\ OnOrOutsideBorder(TickHead)) => game_over

----------------------------------------------------------------------------
(* C3: no duplicate segment *)

\* C3: in every reachable state the snake sequence holds no Position twice.
C3_NoDuplicateSegment ==
    Cardinality({snake[i] : i \in 1..Len(snake)}) = Len(snake)

\* a tick has just eaten food on a snake already four long: the tail was kept
C3_Witness ==
    /\ Ticked
    /\ Len(last.pre.snake) >= 4
    /\ Len(snake) = Len(last.pre.snake) + 1

----------------------------------------------------------------------------
(* C4: the food *)

\* C4: in every reachable state the food is on no snake segment and lies in
\* the interior [1,W-1) x [1,H-1).
C4_FoodOffSnakeInInterior == ~contains(snake, food) /\ Interior(food)

\* a tick has just eaten and regenerated the food while the snake, three long
\* or more, left exactly one interior cell free
C4_Witness ==
    /\ Ticked
    /\ TickHead = last.pre.food
    /\ Len(snake) >= 3
    /\ food # last.pre.food
    /\ Cardinality({p \in InteriorCells : \A i \in 1..Len(snake) : snake[i] # p}) = 1

----------------------------------------------------------------------------
(* C5: self-collision, the tail cell included *)

\* C5: a tick whose new head equals the position of any existing segment,
\* the current tail included, sets the terminal flag.
C5_SelfCollisionSetsTerminal == (Ticked /\ TickHitSelf) => game_over

\* a running snake has just stepped onto the cell its own tail occupied
C5_Witness ==
    /\ Ticked
    /\ ~last.pre.game_over
    /\ Len(last.pre.snake) >= 4
    /\ TickHead = last.pre.snake[Len(last.pre.snake)]
    /\ game_over

----------------------------------------------------------------------------
(* C6: a colliding tick changes the flag only *)

\* C6: on a tick that detects a collision (wall or self) the snake, the food
\* and the direction are as before the tick and the terminal flag is true.
C6_CollisionChangesFlagOnly ==
    (Ticked /\ (TickHitWall \/ TickHitSelf)) =>
        /\ game_over
        /\ snake = last.pre.snake
        /\ food = last.pre.food
        /\ direction = last.pre.direction

\* a running snake of two or more segments has just hit a wall
C6_Witness ==
    /\ Ticked
    /\ ~last.pre.game_over
    /\ Len(last.pre.snake) >= 2
    /\ TickHitWall
    /\ game_over

----------------------------------------------------------------------------
(* C7: a tick without collision *)

\* C7: on a tick without collision the new snake is the new head followed by
\* the old snake, without the old tail iff the new head is not the food.  On
\* food the length grows by one, the old segments stay in order, the flag is
\* as before (false in a running game) and the food moves to another cell
\* off the snake; otherwise length and food are unchanged.
C7_StepWithoutCollision ==
    (Ticked /\ ~TickHitWall /\ ~TickHitSelf) =>
        LET old == last.pre.snake
        IN  /\ snake[1] = TickHead
            /\ game_over = last.pre.game_over
            /\ direction = last.pre.direction
            /\ IF TickHead = last.pre.food
               THEN /\ Len(snake) = Len(old) + 1
                    /\ \A i \in 1..Len(old) : snake[i + 1] = old[i]
                    /\ food # last.pre.food
                    /\ \A i \in 1..Len(snake) : snake[i] # food
               ELSE /\ Len(snake) = Len(old)
                    /\ \A i \in 1..(Len(old) - 1) : snake[i + 1] = old[i]
                    /\ food = last.pre.food

\* a running snake of two or more segments has just eaten and grown
C7_Witness ==
    /\ Ticked
    /\ ~last.pre.game_over
    /\ ~game_over
    /\ Len(last.pre.snake) >= 2
    /\ TickHead = last.pre.food
    /\ Len(snake) = Len(last.pre.snake) + 1

----------------------------------------------------------------------------
(* C8, C9: the reversal guard *)

\* C8: a direction-change request leaves the direction as it was when the
\* request is the opposite of the direction current at the call, and sets it
\* to the request in every other case.
C8_DirectionChange ==
    last.op = "change_direction" =>
        direction = IF Opposite(last.pre.direction, last.arg)
                    THEN last.pre.direction
                    ELSE last.arg

\* a request for Left has just been ignored while heading Right
C8_Witness ==
    /\ last.op = "change_direction"
    /\ last.pre.direction = "Right"
    /\ last.arg = "Left"
    /\ direction = "Right"

\* C9: whatever requests came between two ticks, on a snake of two or more
\* segments the head a tick computes is never the cell of the second segment.
C9_NeverStepsOntoSecondSegment ==
    (Ticked /\ Len(last.pre.snake) >= 2) => TickHead # last.pre.snake[2]

----------------------------------------------------------------------------
(* C10: a tick on a terminal state *)

\* C10: a tick on a state whose terminal flag is already true changes
\* neither the snake, the food, the direction nor the flag.
C10_TickOnTerminalIsNoOp ==
    (Ticked /\ last.pre.game_over) =>
        /\ snake = last.pre.snake
        /\ food = last.pre.food
        /\ direction = last.pre.direction
        /\ game_over = last.pre.game_over

----------------------------------------------------------------------------
(* C14: shape of the snake *)

\* one grid step apart: Manhattan distance 1
OneStepApart(p, q) ==
    \/ p.x = q.x /\ (p.y = q.y + 1 \/ q.y = p.y + 1)
    \/ p.y = q.y /\ (p.x = q.x + 1 \/ q.x = p.x + 1)

\* C14: in every reachable state the snake has at least one segment and
\* every two consecutive segments are exactly one grid step apart.
C14_NonEmptyAndContiguous ==
    /\ Len(snake) >= 1
    /\ \A i \in 1..(Len(snake) - 1) : OneStepApart(snake[i], snake[i + 1])

\* a tick has just grown a snake that was already three long
C14_Witness ==
    /\ Ticked
    /\ Len(last.pre.snake) >= 3
    /\ Len(snake) = Len(last.pre.snake) + 1

----------------------------------------------------------------------------
(* C15: what raises the terminal flag *)

\* the last operation raised the terminal flag
FlagRaised == last.op # "new" /\ ~last.pre.game_over /\ game_over

\* C15 as stated: every step that takes the terminal flag from false to true
\* is a tick in which the collision condition held.
C15_OnlyCollisionRaisesFlag ==
    FlagRaised => (Ticked /\ (TickHitWall \/ TickHitSelf))

\* C15 as amended: every step that takes the terminal flag from false to
\* true is a tick in which the collision condition held, or a quit request.
C15_CollisionOrQuitRaisesFlag ==
    FlagRaised => \/ Ticked /\ (TickHitWall \/ TickHitSelf)
                  \/ last.op = "quit"

\* a tick of a running snake of two or more segments has just raised the flag
C15_Witness ==
    /\ FlagRaised
    /\ Ticked
    /\ Len(snake) >= 2

----------------------------------------------------------------------------
(* C16: room for the food *)

\* C16: in every reachable state the snake is shorter than the number of
\* interior cells (W-2)*(H-2).
C16_SnakeShorterThanInterior == Len(snake) < (WIDTH - 2) * (HEIGHT - 2)

----------------------------------------------------------------------------
(* C18: a direction change moves nothing *)

\* C18: a direction-change request, accepted or ignored, leaves the snake,
\* the food and the terminal flag as they were; the snake changes on a tick
\* only.
C18_DirectionChangeFrame ==
    /\ last.op = "change_direction" =>
           /\ snake = last.pre.snake
           /\ food = last.pre.food
           /\ game_over = last.pre.game_over
    /\ (last.op # "new" /\ snake # last.pre.snake) => Ticked

\* a request has just been accepted on a running snake of two or more segments
C18_Witness ==
    /\ last.op = "change_direction"
    /\ ~game_over
    /\ Len(snake) >= 2
    /\ direction # last.pre.direction
    /\ direction = last.arg

----------------------------------------------------------------------------
(* C19: no wrap of the u16 coordinates *)

\* the cells with x = 0 and the cells with y = 0
LeftEdge == {Position(0, y) : y \in 0..(HEIGHT - 1)}
TopEdge == {Position(x, 0) : x \in 0..(WIDTH - 1)}

\* a step Left from x = 0, or Up from y = 0, stays at 0
StepFromZeroStaysAtZero ==
    /\ \A p \in LeftEdge : new_head(p, "Left").x = 0
    /\ \A p \in TopEdge : new_head(p, "Up").y = 0

\* C19: a step Left from x = 0 or Up from y = 0 yields 0, not 65535; in every
\* reachable state head + 1 stays below 2^16; and a tick that steps Left or
\* Up from the lowest reachable coordinate computes coordinate 0, which is a
\* collision that leaves the snake where it was.
C19_NoWrap ==
    /\ StepFromZeroStaysAtZero
    /\ snake[1].x + 1 < U16
    /\ snake[1].y + 1 < U16
    /\ snake[1].x >= 1
    /\ snake[1].y >= 1
    /\ (Ticked /\ last.pre.direction = "Left" /\ last.pre.snake[1].x = 1) =>
           (TickHead.x = 0 /\ game_over /\ snake = last.pre.snake)
    /\ (Ticked /\ last.pre.direction = "Up" /\ last.pre.snake[1].y = 1) =>
           (TickHead.y = 0 /\ game_over /\ snake = last.pre.snake)

\* a running snake has just stepped Left from x = 1
C19_Witness ==
    /\ Ticked
    /\ ~last.pre.game_over
    /\ last.pre.direction = "Left"
    /\ last.pre.snake[1].x = 1
    /\ game_over

----------------------------------------------------------------------------
(* C11: GameOver is absorbing in the running program *)

\* C11: once the terminal flag is true no step of the driver loop clears it
\* or changes the snake, the food or the direction; no engine operation is
\* performed any more, input is not polled again, and the terminal check
\* leaves the loop.
C11_GameOverAbsorbing ==
    [][game_over =>
          /\ game_over'
          /\ snake' = snake /\ food' = food /\ direction' = direction
          /\ last' = last
          /\ pc # "poll" /\ pc' # "poll"
          /\ (pc = "check" /\ pc' # pc) => pc' = "done"]_vars

\* the loop has ended on a collision, with a key still waiting unread
C11_Witness ==
    /\ pc = "done"
    /\ game_over
    /\ Ticked
    /\ TickHitWall \/ TickHitSelf
    /\ events # <<>>

----------------------------------------------------------------------------
(* C12: the quit request *)

\* C12: a quit request is taken while input is drained (never inside a
\* tick), sets the terminal flag and leaves snake, food and direction as
\* they were; after it no tick and no direction change is performed, no
\* pending event is read, and the terminal check leaves the loop.
C12_QuitEndsTheLoop ==
    [][/\ (last' # last /\ last'.op = "quit") =>
              /\ pc = "poll" /\ pc' = "frame"
              /\ game_over'
              /\ snake' = snake /\ food' = food /\ direction' = direction
       /\ last.op = "quit" =>
              /\ last' = last
              /\ game_over'
              /\ snake' = snake /\ food' = food /\ direction' = direction
              /\ pc' # "poll"
              /\ Len(events') >= Len(events)
              /\ (pc = "check" /\ pc' # pc) => pc' = "done"]_vars

\* the loop has ended on a quit, with a direction key still waiting behind it
C12_Witness ==
    /\ pc = "done"
    /\ last.op = "quit"
    /\ game_over
    /\ events # <<>>
    /\ events[1] \in Direction

----------------------------------------------------------------------------
(* C13: pending direction events and the next tick *)

\* the direction that results from applying the keys ks, oldest first, to
\* direction d: a key that is a direction and not the opposite of the
\* direction current at its turn replaces it
RECURSIVE Steer(_, _)
Steer(d, ks) ==
    IF ks = <<>>
    THEN d
    ELSE Steer(IF Head(ks) \in Direction /\ ~Opposite(d, Head(ks)) THEN Head(ks) ELSE d,
               Tail(ks))

\* the keys of inbox that have been read
Consumed == SubSeq(inbox, 1, Len(inbox) - Len(events))

\* the keys of inbox that are still pending
Unread == SubSeq(inbox, Len(inbox) - Len(events) + 1, Len(inbox))

\* C13: the pending events are read oldest first; draining ends only when
\* none is pending (or on quit), before the tick; the direction is the one
\* resulting from the keys read since the last tick, applied in receipt
\* order to the direction of that tick, and it is the direction the next
\* tick moves in.
C13_DrainedInOrderBeforeTick ==
    [][/\ events' = Unread'
       /\ direction' = Steer(dir0', Consumed')
       /\ (pc = "poll" /\ pc' = "frame") => (events = <<>> \/ Head(events) = "q")
       /\ (last' # last /\ last'.op = "update") =>
              /\ pc = "frame"
              /\ last'.pre.direction = Steer(dir0, Consumed)]_vars

\* a tick has just moved in the direction of the second of two requests
\* drained since the tick before: the reverse of that tick's direction
C13_Witness ==
    /\ pc = "check"
    /\ Ticked
    /\ Len(last.pre.snake) >= 2
    /\ TickHead = last.pre.snake[2]
    /\ dir0 = last.pre.direction

----------------------------------------------------------------------------
(* C17: termination of the food placement *)

\* some interior cell is not on the snake
FreeInteriorCell == \E p \in InteriorCells : \A i \in 1..Len(snake) : snake[i] # p

\* C17: under fair sampling the placement loop returns whenever an interior
\* cell is free of the snake; when the snake occupies every interior cell it
\* never returns, and the tick that ate the food never completes.
C17_PlacementReturnsIffCellFree ==
    /\ (pc = "generate_food" /\ FreeInteriorCell) ~> (pc # "generate_food")
    /\ [](pc = "generate_food" /\ ~FreeInteriorCell => [](pc = "generate_food"))

\* the loop is running over a snake that fills the interior and has already
\* thrown a sample away
C17_Witness ==
    /\ pc = "generate_food"
    /\ ~FreeInteriorCell
    /\ candidate # no_candidate

====
